---- MODULE Spec2Model ----
(***************************************************************************)
(* State-machine model of the PCR incident-report application (src/app.py):*)
(* the user table with per-user wrapped data keys, the encrypted draft     *)
(* table (pcr_records), the submissions table, the browser sessions, and   *)
(* the request handlers that read and write them.                          *)
(*                                                                         *)
(*   Spec      users, sessions and encrypted drafts: every handler is one  *)
(*             atomic step (sequential requests of two browsers)           *)
(*   SingleSpec  the same handlers requested by one browser                *)
(*   SubSpec   one browser; adds the submissions handlers                  *)
(*   CodecSpec two provisioned users saving and loading payloads of every  *)
(*             JSON kind                                                   *)
(*   ConcSpec  submit_draft and add_user run as two steps each (the read   *)
(*             of the table, then the write and commit), so that two       *)
(*             requests interleave at the storage layer                    *)
(***************************************************************************)
EXTENDS Integers, Sequences, FiniteSets, TLC

VARIABLES
    users,            \* table "user": rows [id, username, password, encrypted_key]
    pcr_records,      \* table "pcr_records": rows [id, user_id, encrypted_data, saved_by]
    submissions,      \* table "submissions": rows [id, user_id, status, data, updated_at]
    session,          \* per browser: the signed session cookie [username, role, user_id, acct]
    secret_key_file,  \* whether secret.key exists next to app.py
    next_key,         \* number of the next os.urandom(32) draw
    inflight,         \* ConcSpec: per worker thread, the request it handles
    resp              \* the last response sent: [op, status, body]

vars == <<users, pcr_records, submissions, session, secret_key_file, next_key,
          inflight, resp>>

(***************************************************************************)
(* Bounds                                                                  *)
(***************************************************************************)
\* at most MaxKeys user rows (and so wrapped data keys) are created in one
\* behaviour
MaxKeys == 2

Clients == {"c1", "c2"}
Workers == {"w1", "w2"}

ADMIN_USERNAME == "admin"
SECONDARY_ADMIN_USERNAME == "secondary_admin"
\* the passwords whose bcrypt hashes the environment configures
ADMIN_PASSWORD == "Adm1n!pass"
SECONDARY_ADMIN_PASSWORD == "Sec0nd!pass"

Usernames == {ADMIN_USERNAME, SECONDARY_ADMIN_USERNAME, "bob"}
\* what a client may type as a username ("" is the missing field)
UsernameInputs == Usernames \cup {""}
\* the credentials a client may post to /login: each username with the
\* password it may have, the admin name with a supervisor password, a wrong
\* password and the empty form
LoginInputs ==
    { <<ADMIN_USERNAME, ADMIN_PASSWORD>>,
      <<SECONDARY_ADMIN_USERNAME, SECONDARY_ADMIN_PASSWORD>>,
      <<"bob", "Passw0rd!">>,
      <<ADMIN_USERNAME, "Passw0rd!">>,
      <<"bob", "weak">>,
      <<"", "">> }
\* the bodies a client may post to /admin/add_user: every username with a
\* strong password, and one body for each way the validation rejects
AddUserInputs ==
    (Usernames \X {"Passw0rd!"}) \cup {<<"", "Passw0rd!">>, <<"bob", "">>, <<"bob", "weak">>}

(***************************************************************************)
(* JSON payloads.  Every value has the same record shape so that any two   *)
(* of them can be compared: t is the kind, b/n/s the scalar, items the     *)
(* members of an array (k = "") or of an object (k = the key).             *)
(***************************************************************************)
JNull == [t |-> "null", b |-> FALSE, n |-> 0, s |-> "", items |-> <<>>]
JBool(x) == [t |-> "bool", b |-> x, n |-> 0, s |-> "", items |-> <<>>]
JNum(x) == [t |-> "num", b |-> FALSE, n |-> x, s |-> "", items |-> <<>>]
JStr(x) == [t |-> "str", b |-> FALSE, n |-> 0, s |-> x, items |-> <<>>]
JArr(xs) == [t |-> "arr", b |-> FALSE, n |-> 0, s |-> "", items |-> xs]
JObj(xs) == [t |-> "obj", b |-> FALSE, n |-> 0, s |-> "", items |-> xs]
Member(key, value) == [k |-> key, v |-> value]
EmptyDict == JObj(<<>>)

\* Python truthiness of a decoded JSON value (the left operand of "or {}")
Truthy(v) ==
    CASE v.t = "null" -> FALSE
      [] v.t = "bool" -> v.b
      [] v.t = "num" -> v.n # 0
      [] v.t = "str" -> v.s # ""
      [] OTHER -> v.items # <<>>

\* request.get_json(silent=True) or {}
GetJsonOrEmpty(v) == IF Truthy(v) THEN v ELSE EmptyDict

RECURSIVE PyRepr(_)
RECURSIVE PyReprItems(_, _, _)
\* repr() of the members of a list or dict, joined with ", "
PyReprItems(xs, i, isDict) ==
    IF i > Len(xs) THEN ""
    ELSE (IF i > 1 THEN ", " ELSE "")
         \o (IF isDict THEN "'" \o xs[i].k \o "': " ELSE "")
         \o PyRepr(xs[i].v)
         \o PyReprItems(xs, i + 1, isDict)
\* Python repr() of a decoded JSON value
PyRepr(v) ==
    CASE v.t = "null" -> "None"
      [] v.t = "bool" -> (IF v.b THEN "True" ELSE "False")
      [] v.t = "num" -> ToString(v.n)
      [] v.t = "str" -> "'" \o v.s \o "'"
      [] v.t = "arr" -> "[" \o PyReprItems(v.items, 1, FALSE) \o "]"
      [] OTHER -> "{" \o PyReprItems(v.items, 1, TRUE) \o "}"

\* data_str = str(data): a str is itself, anything else is its repr
PyStr(v) == IF v.t = "str" THEN v.s ELSE PyRepr(v)

\* the JSON bodies a client posts
Payloads ==
    { EmptyDict,
      JObj(<<Member("patientName", JStr("Jane"))>>) }

(***************************************************************************)
(* Keys and Fernet.  Key 0 is the application key held in secret.key; the  *)
(* data keys drawn by os.urandom(32) are 1, 2, ...  A Fernet token is      *)
(* authenticated: it opens only under the key that made it.                *)
(***************************************************************************)
AppKey == 0
NoKey == -1

\* load_app_secret_key(): the key, or FileNotFoundError
load_app_secret_key == IF secret_key_file THEN AppKey ELSE NoKey

FernetEncrypt(key, plain) == [key |-> key, plain |-> plain]
FernetOpens(key, token) == token.key = key
FernetDecrypt(key, token) == token.plain

\* the NULL value of the encrypted_key column
NoWrappedKey == [key |-> NoKey, plain |-> NoKey]

\* encrypt_user_encryption_key(user_key); called only when secret.key loads
encrypt_user_encryption_key(user_key) == FernetEncrypt(load_app_secret_key, user_key)

\* decrypt_user_encryption_key(encrypted_user_key); NoKey stands for a raise
decrypt_user_encryption_key(wrapped) ==
    IF load_app_secret_key # NoKey /\ FernetOpens(load_app_secret_key, wrapped)
    THEN FernetDecrypt(load_app_secret_key, wrapped)
    ELSE NoKey

\* bcrypt.generate_password_hash / bcrypt.check_password_hash
PasswordHash(p) == <<"bcrypt", p>>
CheckPasswordHash(h, p) == h = PasswordHash(p)
ADMIN_PASSWORD_HASH == PasswordHash(ADMIN_PASSWORD)
SECONDARY_ADMIN_PASSWORD_HASH == PasswordHash(SECONDARY_ADMIN_PASSWORD)

\* the password-strength regex of add_user, evaluated on Passwords:
\* 8+ characters of [A-Za-z0-9@$!%*?&] with an uppercase letter, a digit
\* and a special character
StrongPassword(p) == p \in {ADMIN_PASSWORD, SECONDARY_ADMIN_PASSWORD, "Passw0rd!"}

(***************************************************************************)
(* Tables                                                                  *)
(***************************************************************************)
Max(S) == CHOOSE x \in S : \A y \in S : y <= x
Min(S) == CHOOSE x \in S : \A y \in S : x <= y

\* INTEGER PRIMARY KEY without AUTOINCREMENT: SQLite gives a new row the
\* largest rowid in the table plus one, so the id of a deleted row is reused
NextRowId(rows) == IF rows = {} THEN 1 ELSE Max({r.id : r \in rows}) + 1

\* Query.first(): the matching row with the least rowid
First(rows) == CHOOSE r \in rows : r.id = Min({x.id : x \in rows})

UsersByName(username) == {u \in users : u.username = username}
UsersById(uid) == {u \in users : u.id = uid}
DraftsOf(uid) == {r \in pcr_records : r.user_id = uid}
SubmissionsOf(uid) == {s \in submissions : s.user_id = uid}

\* username = db.Column(..., unique=True): may a row with this name be inserted
UsernameUnique(rows, username) == \A u \in rows : u.username # username

\* user_id = db.Column(..., unique=True) of pcr_records
DraftUserIdUnique(rows, uid) == \A r \in rows : r.user_id # uid

(***************************************************************************)
(* Sessions and responses                                                  *)
(***************************************************************************)
\* session.clear(): no key is set.  acct is not part of the cookie: it
\* records the data key of the user row the session was opened on.
EmptySession == [username |-> "", role |-> "", user_id |-> 0, acct |-> NoKey]

\* current_user_id(): the session's user_id, 0 when the request aborts with 401
current_user_id(c) == session[c].user_id

Response(op, status, body) == [op |-> op, status |-> status, body |-> body]

\* the data key a user row wraps: the identity of the account
AccountOf(u) == u.encrypted_key.plain

\* a worker thread with no request: pc is "idle", "write" (between the read
\* of the table and the commit) or "done"
Idle == [op |-> "", pc |-> "idle", uid |-> 0, rec |-> 0,
         encrypted_payload |-> FernetEncrypt(NoKey, ""), acct |-> NoKey,
         username |-> "", password |-> "", status |-> 0]

Init ==
    /\ users = {}
    /\ pcr_records = {}
    /\ submissions = {}
    /\ session = [c \in Clients |-> EmptySession]
    /\ secret_key_file \in BOOLEAN
    /\ next_key = 1
    /\ inflight = [w \in Workers |-> Idle]
    /\ resp = Response("", 0, JNull)

(***************************************************************************)
(* User.create_with_key: the outcome of generating and wrapping a key,     *)
(* adding the row and committing.  It raises when secret.key is missing    *)
(* (before anything is added) or when the username is taken (IntegrityError*)
(* on commit).                                                             *)
(***************************************************************************)
\* NewUserRow as it would be if the row were added without its key
NewUserRowNoKey(rows, username, password) ==
    [id |-> NextRowId(rows),
     username |-> username,
     password |-> PasswordHash(password),
     encrypted_key |-> NoWrappedKey]

NewUserRow(rows, username, password) ==
    [id |-> NextRowId(rows),
     username |-> username,
     password |-> PasswordHash(password),
     encrypted_key |-> encrypt_user_encryption_key(next_key)]

create_with_key_ok(rows, username) ==
    load_app_secret_key # NoKey /\ UsernameUnique(rows, username)

\* create_with_key as it would be if "wrapped" were written to every row
create_with_key_rewraps(rows, username, password) ==
    IF create_with_key_ok(rows, username)
    THEN {[u EXCEPT !.encrypted_key = encrypt_user_encryption_key(next_key)] : u \in rows}
         \cup {NewUserRow(rows, username, password)}
    ELSE rows

create_with_key(rows, username, password) ==
    IF create_with_key_ok(rows, username)
    THEN rows \cup {NewUserRow(rows, username, password)}
    ELSE rows

(***************************************************************************)
(* POST /login                                                             *)
(***************************************************************************)
\* which of the three branches of login() the credentials select
LoginBranch(username, password) ==
    IF username = ADMIN_USERNAME /\ CheckPasswordHash(ADMIN_PASSWORD_HASH, password)
    THEN "admin"
    ELSE IF username = SECONDARY_ADMIN_USERNAME
            /\ CheckPasswordHash(SECONDARY_ADMIN_PASSWORD_HASH, password)
    THEN "secondary_admin"
    ELSE IF UsersByName(username) # {}
            /\ CheckPasswordHash(First(UsersByName(username)).password, password)
    THEN "supervisor"
    ELSE "invalid"

\* the admin and secondary-admin branches: the user row is created with a
\* key when absent ("if not user: user = User.create_with_key(...)")
LoginCreatesRow(username, password) ==
    /\ LoginBranch(username, password) \in {"admin", "secondary_admin"}
    /\ UsersByName(username) = {}

Login(c, username, password) ==
    LET branch == LoginBranch(username, password)
        creates == LoginCreatesRow(username, password)
        rows == IF creates THEN create_with_key(users, username, password) ELSE users
        raised == creates /\ ~create_with_key_ok(users, username)
        user == First({u \in rows : u.username = username})
    IN  /\ (creates /\ ~raised) => next_key <= MaxKeys
        /\ users' = rows
        /\ next_key' = IF creates /\ ~raised THEN next_key + 1 ELSE next_key
        /\ session' \in
             IF branch = "invalid" THEN {session}
             ELSE IF raised
             THEN \* username and role were stored before create_with_key raised;
                  \* the cookie carries them when Flask answers the exception
                  \* itself, and is not sent when it propagates (debug server)
                  {session, [session EXCEPT ![c].username = username, ![c].role = branch]}
             ELSE {[session EXCEPT ![c] = [username |-> username, role |-> branch,
                                           user_id |-> user.id, acct |-> AccountOf(user)]]}
        /\ resp' = Response("login", IF raised THEN 500 ELSE 302,
                            JStr(IF raised THEN "error" ELSE branch))
        /\ UNCHANGED <<pcr_records, submissions, secret_key_file, inflight>>

(***************************************************************************)
(* GET /logout                                                             *)
(***************************************************************************)
Logout(c) ==
    /\ session' = [session EXCEPT ![c] = EmptySession]
    /\ resp' = Response("logout", 302, JStr("home"))
    /\ UNCHANGED <<users, pcr_records, submissions, secret_key_file, next_key, inflight>>

(***************************************************************************)
(* POST /admin/add_user                                                    *)
(***************************************************************************)
\* AddUserRejects as it would be without the check of the session's role
AddUserRejectsAnyRole(c, username, password) ==
    IF username = "" \/ password = "" THEN "Username and password are required"
    ELSE IF ~StrongPassword(password) THEN "Password must be at least 8 characters long"
    ELSE ""

\* the checks of add_user before the existence query: the message it
\* returns early with, "" when they pass
AddUserRejects(c, username, password) ==
    IF session[c].role # "admin" THEN "Unauthorized"
    ELSE IF username = "" \/ password = "" THEN "Username and password are required"
    ELSE IF ~StrongPassword(password) THEN "Password must be at least 8 characters long"
    ELSE ""

\* AddUserExists as it would be without the existence query
AddUserExistsUnchecked(username) == FALSE

\* "if User.query.filter_by(username=username).first()"
AddUserExists(username) == UsersByName(username) # {}

\* the status and message add_user answers with when it returns before
\* create_with_key (status 0 when it goes on to create the user)
AddUserCheck(c, username, password) ==
    LET rejected == AddUserRejects(c, username, password)
    IN  IF rejected = "Unauthorized" THEN [status |-> 403, message |-> rejected]
        ELSE IF rejected # "" THEN [status |-> 400, message |-> rejected]
        ELSE IF AddUserExists(username)
        THEN [status |-> 400, message |-> "User already exists!"]
        ELSE [status |-> 0, message |-> ""]

\* AddUserCreateStatus as it would be if the except clause were passed over
AddUserCreateStatusAlwaysOk(rows, username) == 200

\* "try: User.create_with_key(...) except Exception": 200, or 500 when it raised
AddUserCreateStatus(rows, username) ==
    IF create_with_key_ok(rows, username) THEN 200 ELSE 500

AddUserCreateMessage(status) ==
    IF status = 200 THEN "User added successfully with encryption key!" ELSE "Error"

AddUser(c, username, password) ==
    LET check == AddUserCheck(c, username, password)
        status == IF check.status # 0 THEN check.status
                  ELSE AddUserCreateStatus(users, username)
        message == IF check.status # 0 THEN check.message ELSE AddUserCreateMessage(status)
        creates == check.status = 0 /\ create_with_key_ok(users, username)
    IN  /\ creates => next_key <= MaxKeys
        /\ users' = IF check.status = 0 THEN create_with_key(users, username, password)
                    ELSE users
        /\ next_key' = IF creates THEN next_key + 1 ELSE next_key
        /\ resp' = Response("add_user", status, JStr(message))
        /\ UNCHANGED <<pcr_records, submissions, session, secret_key_file, inflight>>

(***************************************************************************)
(* POST /admin/remove_user                                                 *)
(***************************************************************************)
\* updated_at is kept as the rank of the row among the rows of the table
\* (1 = least recently written): only the order of the timestamps is read.
\* The ranks of the rows that are left, closed up after rows were deleted
RankUpdatedAt(rows) ==
    {[s EXCEPT !.updated_at = Cardinality({t \in rows : t.updated_at <= s.updated_at})]
       : s \in rows}

\* onupdate=datetime.utcnow: the row written gets the latest timestamp
TouchUpdatedAt(rows, id) ==
    RankUpdatedAt({IF s.id = id THEN [s EXCEPT !.updated_at = Cardinality(rows) + 1]
                   ELSE s : s \in rows})

\* DeleteCascade as it would be without cascade= on the relationships
DeleteNoCascade(rows, user) == rows

\* db.session.delete(user) with cascade="all, delete-orphan" on both
\* relationships: the rows that reference the user's id go with it
DeleteCascade(rows, user) == {r \in rows : r.user_id # user.id}

RemoveUser(c, username) ==
    LET status == IF session[c].role # "admin" THEN 403
                  ELSE IF username = "" THEN 400
                  ELSE IF UsersByName(username) = {} THEN 404
                  ELSE 200
        message == CASE status = 403 -> "Unauthorized"
                     [] status = 400 -> "Username is required"
                     [] status = 404 -> "User not found"
                     [] OTHER -> "User removed successfully!"
        user == First(UsersByName(username))
    IN  /\ users' = IF status = 200 THEN users \ {user} ELSE users
        /\ pcr_records' = IF status = 200 THEN DeleteCascade(pcr_records, user)
                          ELSE pcr_records
        /\ submissions' = IF status = 200
                          THEN RankUpdatedAt(DeleteCascade(submissions, user))
                          ELSE submissions
        /\ resp' = Response("remove_user", status, JStr(message))
        /\ UNCHANGED <<session, secret_key_file, next_key, inflight>>

(***************************************************************************)
(* POST /submit_draft                                                      *)
(***************************************************************************)
\* the key submit_draft encrypts the payload under: user_key is unwrapped
\* but not used, f_app = Fernet(load_app_secret_key()) does the encryption
SubmitDraftKey(user) == load_app_secret_key

\* "if not user or not user.encrypted_key": 'No user encryption key found'
NoUserKeyFound(uid) ==
    UsersById(uid) = {} \/ First(UsersById(uid)).encrypted_key = NoWrappedKey

\* submit_draft up to the encryption: the status it returns early with
\* (0 when it goes on) and the encrypted payload
SubmitDraftPrepare(c, payload) ==
    LET uid == current_user_id(c)
        data == GetJsonOrEmpty(payload)
        user == First(UsersById(uid))
    IN  IF uid = 0 THEN [status |-> 401, encrypted_payload |-> FernetEncrypt(NoKey, "")]
        ELSE IF NoUserKeyFound(uid)
        THEN [status |-> 500, encrypted_payload |-> FernetEncrypt(NoKey, "")]
        ELSE IF decrypt_user_encryption_key(user.encrypted_key) = NoKey
                \/ SubmitDraftKey(user) = NoKey
        THEN [status |-> 500, encrypted_payload |-> FernetEncrypt(NoKey, "")]
        ELSE [status |-> 0,
              encrypted_payload |-> FernetEncrypt(SubmitDraftKey(user), PyStr(data))]

\* rec = PCRRecord.query.filter_by(user_id=uid).first(): its id, 0 for None
DraftLookup(rows, uid) ==
    LET found == {r \in rows : r.user_id = uid}
    IN  IF found = {} THEN 0 ELSE First(found).id

\* whether the commit of the update (rec found) or of the insert goes through:
\* an update of a row deleted meanwhile and an insert of a second row for
\* the user_id both raise
DraftCommitOk(rows, rec, uid) ==
    IF rec # 0 THEN \E r \in rows : r.id = rec
    ELSE DraftUserIdUnique(rows, uid)

\* 200 after the commit, 500 when it raised (nothing catches it)
DraftCommitStatus(rows, rec, uid) == IF DraftCommitOk(rows, rec, uid) THEN 200 ELSE 500

\* DraftWrite as it would be if submit_draft added a record on every save
DraftWriteAlwaysAdds(rows, rec, uid, encrypted_payload, acct) ==
    rows \cup {[id |-> NextRowId(rows), user_id |-> uid,
                encrypted_data |-> encrypted_payload, saved_by |-> acct]}

\* "if rec: rec.encrypted_data = ... else: db.session.add(PCRRecord(...))"
\* and db.session.commit(); saved_by records the account of the session
DraftWrite(rows, rec, uid, encrypted_payload, acct) ==
    IF ~DraftCommitOk(rows, rec, uid) THEN rows
    ELSE IF rec # 0
    THEN {IF r.id = rec
          THEN [r EXCEPT !.encrypted_data = encrypted_payload, !.saved_by = acct]
          ELSE r : r \in rows}
    ELSE rows \cup {[id |-> NextRowId(rows), user_id |-> uid,
                     encrypted_data |-> encrypted_payload, saved_by |-> acct]}

\* SubmitDraft as it would be if the record were written before the checks
SubmitDraftWritesFirst(c, payload) ==
    LET uid == current_user_id(c)
        prep == SubmitDraftPrepare(c, payload)
        rec == DraftLookup(pcr_records, uid)
    IN  /\ pcr_records' =
             DraftWrite(pcr_records, rec, uid, prep.encrypted_payload, session[c].acct)
        /\ resp' = Response("submit_draft",
                            IF prep.status # 0 THEN prep.status
                            ELSE DraftCommitStatus(pcr_records, rec, uid), JNull)
        /\ UNCHANGED <<users, submissions, session, secret_key_file, next_key, inflight>>

SubmitDraft(c, payload) ==
    LET uid == current_user_id(c)
        prep == SubmitDraftPrepare(c, payload)
        rec == DraftLookup(pcr_records, uid)
    IN  /\ pcr_records' =
             IF prep.status # 0 THEN pcr_records
             ELSE DraftWrite(pcr_records, rec, uid, prep.encrypted_payload, session[c].acct)
        /\ resp' = Response("submit_draft",
                            IF prep.status # 0 THEN prep.status
                            ELSE DraftCommitStatus(pcr_records, rec, uid), JNull)
        /\ UNCHANGED <<users, submissions, session, secret_key_file, next_key, inflight>>

(***************************************************************************)
(* GET /get_draft                                                          *)
(***************************************************************************)
\* the key get_draft decrypts with
GetDraftKey(uid) == load_app_secret_key

\* GetDraftFor as it would be if a missing record were answered as an
\* empty draft
GetDraftForEmptyDefault(uid) ==
    LET rec == First(DraftsOf(uid))
    IN  IF DraftsOf(uid) = {} THEN [status |-> 200, draft |-> JStr("{}")]
        ELSE IF GetDraftKey(uid) = NoKey \/ ~FernetOpens(GetDraftKey(uid), rec.encrypted_data)
        THEN [status |-> 500, draft |-> JNull]
        ELSE [status |-> 200,
              draft |-> JStr(FernetDecrypt(GetDraftKey(uid), rec.encrypted_data))]

\* get_draft once current_user_id() returned uid: the status and the JSON
\* value of "draft" it answers with
GetDraftFor(uid) ==
    LET rec == First(DraftsOf(uid))
    IN  IF DraftsOf(uid) = {} THEN [status |-> 404, draft |-> JNull]
        ELSE IF GetDraftKey(uid) = NoKey \/ ~FernetOpens(GetDraftKey(uid), rec.encrypted_data)
        THEN [status |-> 500, draft |-> JNull]
        ELSE [status |-> 200,
              draft |-> JStr(FernetDecrypt(GetDraftKey(uid), rec.encrypted_data))]

GetDraftResponse(c) ==
    IF current_user_id(c) = 0 THEN [status |-> 401, draft |-> JNull]
    ELSE GetDraftFor(current_user_id(c))

GetDraft(c) ==
    /\ resp' = Response("get_draft", GetDraftResponse(c).status, GetDraftResponse(c).draft)
    /\ UNCHANGED <<users, pcr_records, submissions, session, secret_key_file,
                   next_key, inflight>>

(***************************************************************************)
(* POST /api/autosync and POST /api/submit                                 *)
(***************************************************************************)
\* SaveSubmission as it would be if an existing submission were left as it is
SaveSubmissionKeepsFirst(rows, uid, data, status) ==
    IF {s \in rows : s.user_id = uid} # {} THEN rows
    ELSE rows \cup {[id |-> NextRowId(rows), user_id |-> uid, status |-> status,
                     data |-> data, updated_at |-> Cardinality(rows) + 1]}

\* the common body of autosync and submit_final: the first submission of
\* the user is overwritten, or one is added.  An assignment that changes
\* neither data nor status emits no UPDATE, so updated_at stays.
SaveSubmission(rows, uid, data, status) ==
    LET found == {s \in rows : s.user_id = uid}
        sub == First(found)
    IN  IF found # {}
        THEN IF sub.data = data /\ sub.status = status THEN rows
             ELSE TouchUpdatedAt({IF s = sub THEN [s EXCEPT !.data = data, !.status = status]
                                  ELSE s : s \in rows}, sub.id)
        ELSE rows \cup {[id |-> NextRowId(rows), user_id |-> uid, status |-> status,
                         data |-> data, updated_at |-> Cardinality(rows) + 1]}

Autosync(c, payload) ==
    LET uid == current_user_id(c)
    IN  /\ submissions' = IF uid = 0 THEN submissions
                          ELSE SaveSubmission(submissions, uid, GetJsonOrEmpty(payload), "draft")
        /\ resp' = Response("autosync", IF uid = 0 THEN 401 ELSE 200,
                            IF uid = 0 THEN JNull ELSE JStr("draft"))
        /\ UNCHANGED <<users, pcr_records, session, secret_key_file, next_key, inflight>>

SubmitFinal(c, payload) ==
    LET uid == current_user_id(c)
    IN  /\ submissions' = IF uid = 0 THEN submissions
                          ELSE SaveSubmission(submissions, uid, GetJsonOrEmpty(payload), "final")
        /\ resp' = Response("submit", IF uid = 0 THEN 401 ELSE 200,
                            IF uid = 0 THEN JNull ELSE JStr("final"))
        /\ UNCHANGED <<users, pcr_records, session, secret_key_file, next_key, inflight>>

(***************************************************************************)
(* GET /api/submission                                                     *)
(***************************************************************************)
\* .order_by(Submission.updated_at.desc()).first() among the rows of uid
LatestSubmission(uid) ==
    CHOOSE s \in SubmissionsOf(uid) :
        \A t \in SubmissionsOf(uid) : t.updated_at <= s.updated_at

\* the JSON body get_submission answers with once current_user_id() gave uid
GetSubmissionFor(uid) ==
    IF SubmissionsOf(uid) = {} THEN JObj(<<Member("data", JNull)>>)
    ELSE JObj(<<Member("id", JNum(LatestSubmission(uid).id)),
                Member("status", JStr(LatestSubmission(uid).status)),
                Member("data", LatestSubmission(uid).data)>>)

GetSubmission(c) ==
    LET uid == current_user_id(c)
    IN  /\ resp' = Response("get_submission", IF uid = 0 THEN 401 ELSE 200,
                            IF uid = 0 THEN JNull ELSE GetSubmissionFor(uid))
        /\ UNCHANGED <<users, pcr_records, submissions, session, secret_key_file,
                       next_key, inflight>>

(***************************************************************************)
(* Spec: sequential requests of two browsers against the user, session and *)
(* draft handlers; every handler is one step                               *)
(***************************************************************************)
Next ==
    \/ \E c \in Clients, in \in LoginInputs : Login(c, in[1], in[2])
    \/ \E c \in Clients : Logout(c)
    \/ \E c \in Clients, in \in AddUserInputs : AddUser(c, in[1], in[2])
    \/ \E c \in Clients, u \in UsernameInputs : RemoveUser(c, u)
    \/ \E c \in Clients, p \in Payloads : SubmitDraft(c, p)
    \/ \E c \in Clients : GetDraft(c)

Spec == Init /\ [][Next]_vars

(***************************************************************************)
(* SingleSpec: the same handlers and inputs, requested by one browser      *)
(***************************************************************************)
SingleNext ==
    \/ \E in \in LoginInputs : Login("c1", in[1], in[2])
    \/ Logout("c1")
    \/ \E in \in AddUserInputs : AddUser("c1", in[1], in[2])
    \/ \E u \in UsernameInputs : RemoveUser("c1", u)
    \/ \E p \in Payloads : SubmitDraft("c1", p)
    \/ GetDraft("c1")

SingleSpec == Init /\ [][SingleNext]_vars

(***************************************************************************)
(* SubSpec: one browser, the admin and one supervisor, with the            *)
(* submissions handlers                                                    *)
(***************************************************************************)
SubLoginInputs == {<<ADMIN_USERNAME, ADMIN_PASSWORD>>, <<"bob", "Passw0rd!">>}
SubAddUserInputs == {<<"bob", "Passw0rd!">>, <<ADMIN_USERNAME, "Passw0rd!">>}
SubUsernames == {ADMIN_USERNAME, "bob"}

SubNext ==
    \/ \E in \in SubLoginInputs : Login("c1", in[1], in[2])
    \/ Logout("c1")
    \/ \E in \in SubAddUserInputs : AddUser("c1", in[1], in[2])
    \/ \E u \in SubUsernames : RemoveUser("c1", u)
    \/ SubmitDraft("c1", EmptyDict)
    \/ \E p \in Payloads : Autosync("c1", p)
    \/ \E p \in Payloads : SubmitFinal("c1", p)
    \/ GetSubmission("c1")
    \/ GetDraft("c1")

SubSpec == Init /\ [][SubNext]_vars

(***************************************************************************)
(* CodecSpec: the admin (c1) and the supervisor bob (c2) are provisioned   *)
(* and logged in, and save and load payloads of every JSON kind            *)
(***************************************************************************)
CodecPayloads ==
    { JNull, JBool(TRUE), JBool(FALSE), JNum(0), JNum(7), JStr(""), JStr("x"),
      JArr(<<>>), JArr(<<Member("", JNum(1)), Member("", JStr("a"))>>),
      EmptyDict,
      JObj(<<Member("patientName", JStr("Jane"))>>),
      JObj(<<Member("patientName", JStr("Jane")), Member("dob", JStr("1990-01-01"))>>),
      JObj(<<Member("airwayManagement", JArr(<<Member("", JBool(TRUE)), Member("", JNull)>>))>>) }

\* the state after admin logged in on c1, added bob, and bob logged in on c2
ProvisionedUsers ==
    { [id |-> 1, username |-> ADMIN_USERNAME, password |-> PasswordHash(ADMIN_PASSWORD),
       encrypted_key |-> FernetEncrypt(AppKey, 1)],
      [id |-> 2, username |-> "bob", password |-> PasswordHash("Passw0rd!"),
       encrypted_key |-> FernetEncrypt(AppKey, 2)] }

CodecInit ==
    /\ users = ProvisionedUsers
    /\ pcr_records = {}
    /\ submissions = {}
    /\ session = [c \in Clients |->
                    IF c = "c1"
                    THEN [username |-> ADMIN_USERNAME, role |-> "admin",
                          user_id |-> 1, acct |-> 1]
                    ELSE [username |-> "bob", role |-> "supervisor",
                          user_id |-> 2, acct |-> 2]]
    /\ secret_key_file = TRUE
    /\ next_key = 3
    /\ inflight = [w \in Workers |-> Idle]
    /\ resp = Response("login", 302, JStr("supervisor"))

CodecNext ==
    \/ \E c \in Clients, p \in CodecPayloads : SubmitDraft(c, p)
    \/ \E c \in Clients : GetDraft(c)

CodecSpec == CodecInit /\ [][CodecNext]_vars

(***************************************************************************)
(* ConcSpec: two worker threads serve the requests of one browser.         *)
(* add_user and submit_draft take two steps: up to the query (Begin), then *)
(* the write and db.session.commit() (Commit).                             *)
(***************************************************************************)
Finished(op, status) == [Idle EXCEPT !.op = op, !.pc = "done", !.status = status]

AddUserBegin(w, c, username, password) ==
    LET check == AddUserCheck(c, username, password)
    IN  /\ inflight[w].pc # "write"
        /\ inflight' =
             [inflight EXCEPT ![w] =
                IF check.status # 0
                THEN [Finished("add_user", check.status) EXCEPT !.username = username]
                ELSE [Idle EXCEPT !.op = "add_user", !.pc = "write",
                                  !.username = username, !.password = password]]
        /\ resp' = IF check.status # 0
                   THEN Response("add_user", check.status, JStr(check.message))
                   ELSE resp
        /\ UNCHANGED <<users, pcr_records, submissions, session, secret_key_file, next_key>>

AddUserCommit(w) ==
    LET req == inflight[w]
        status == AddUserCreateStatus(users, req.username)
        creates == create_with_key_ok(users, req.username)
    IN  /\ req.pc = "write" /\ req.op = "add_user"
        /\ creates => next_key <= MaxKeys
        /\ users' = create_with_key(users, req.username, req.password)
        /\ next_key' = IF creates THEN next_key + 1 ELSE next_key
        /\ inflight' = [inflight EXCEPT ![w] = [req EXCEPT !.pc = "done", !.status = status]]
        /\ resp' = Response("add_user", status, JStr(AddUserCreateMessage(status)))
        /\ UNCHANGED <<pcr_records, submissions, session, secret_key_file>>

SubmitDraftBegin(w, c, payload) ==
    LET uid == current_user_id(c)
        prep == SubmitDraftPrepare(c, payload)
    IN  /\ inflight[w].pc # "write"
        /\ inflight' =
             [inflight EXCEPT ![w] =
                IF prep.status # 0
                THEN [Finished("submit_draft", prep.status) EXCEPT !.uid = uid]
                ELSE [Idle EXCEPT !.op = "submit_draft", !.pc = "write", !.uid = uid,
                                  !.rec = DraftLookup(pcr_records, uid),
                                  !.encrypted_payload = prep.encrypted_payload,
                                  !.acct = session[c].acct]]
        /\ resp' = IF prep.status # 0 THEN Response("submit_draft", prep.status, JNull)
                   ELSE resp
        /\ UNCHANGED <<users, pcr_records, submissions, session, secret_key_file, next_key>>

SubmitDraftCommit(w) ==
    LET req == inflight[w]
        status == DraftCommitStatus(pcr_records, req.rec, req.uid)
    IN  /\ req.pc = "write" /\ req.op = "submit_draft"
        /\ pcr_records' = DraftWrite(pcr_records, req.rec, req.uid,
                                     req.encrypted_payload, req.acct)
        /\ inflight' = [inflight EXCEPT ![w] = [req EXCEPT !.pc = "done", !.status = status]]
        /\ resp' = Response("submit_draft", status, JNull)
        /\ UNCHANGED <<users, submissions, session, secret_key_file, next_key>>

ConcLoginInputs == {<<ADMIN_USERNAME, ADMIN_PASSWORD>>, <<"bob", "Passw0rd!">>}
ConcAddUserInputs == {<<"bob", "Passw0rd!">>, <<SECONDARY_ADMIN_USERNAME, "Passw0rd!">>}

ConcNext ==
    \/ \E in \in ConcLoginInputs : Login("c1", in[1], in[2])
    \/ \E w \in Workers, in \in ConcAddUserInputs : AddUserBegin(w, "c1", in[1], in[2])
    \/ \E w \in Workers : AddUserCommit(w)
    \/ \E w \in Workers, p \in Payloads : SubmitDraftBegin(w, "c1", p)
    \/ \E w \in Workers : SubmitDraftCommit(w)
    \/ GetDraft("c1")

ConcSpec == Init /\ [][ConcNext]_vars

(***************************************************************************)
(* Properties                                                              *)
(***************************************************************************)

\* C1: in every reachable state there is at most one draft record
\* (PCRRecord) per user_id.
C1_AtMostOneDraftPerUser ==
    \A r1, r2 \in pcr_records : r1.user_id = r2.user_id => r1 = r2

\* two users hold a draft each and a save has just succeeded
C1_Witness ==
    /\ resp.op = "submit_draft" /\ resp.status = 200
    /\ Cardinality(pcr_records) = 2

\* C2: every stored draft is encrypted under the data key unwrapped from its
\* user's encrypted_key, and get_draft decrypts with that same per-user key.
C2_DraftUnderUserKey ==
    \A r \in pcr_records : \A u \in UsersById(r.user_id) :
        /\ r.encrypted_data.key = decrypt_user_encryption_key(u.encrypted_key)
        /\ GetDraftKey(u.id) = decrypt_user_encryption_key(u.encrypted_key)

\* C3: when a user who has saved a draft saves again with payload p2, exactly
\* one draft record exists for that user afterwards and get_draft returns p2.
C3_SecondSaveIsReturned ==
    [][(resp'.op = "submit_draft" /\ resp'.status = 200) =>
          \A c \in Clients, p2 \in Payloads :
              (DraftsOf(current_user_id(c)) # {} /\ SubmitDraft(c, p2))
              => /\ Cardinality(DraftsOf(current_user_id(c)))' = 1
                 /\ GetDraftResponse(c)' = [status |-> 200, draft |-> p2]]_vars

\* C5: add_user with an existing username is refused (400 "User already
\* exists!", or 403 without the admin role), and a login of a username
\* whose row exists goes through (302) without creating a row; either way
\* the user rows, wrapped keys included, stay as they are and get_draft for
\* the user returns what it returned before.
C5_ProvisionOnce ==
    [][/\ resp'.op = "add_user" =>
            \A c \in Clients, in \in AddUserInputs :
                (UsersByName(in[1]) # {} /\ AddUser(c, in[1], in[2]))
                => /\ resp'.status \in {400, 403}
                   /\ users' = users
                   /\ \A u \in UsersByName(in[1]) : GetDraftFor(u.id)' = GetDraftFor(u.id)
       /\ resp'.op = "login" =>
            \A c \in Clients, in \in LoginInputs :
                (UsersByName(in[1]) # {} /\ Login(c, in[1], in[2]))
                => /\ resp'.status = 302
                   /\ users' = users
                   /\ \A u \in UsersByName(in[1]) : GetDraftFor(u.id)' = GetDraftFor(u.id)]_vars

\* add_user has just been refused for an existing username while every
\* user holds a decryptable draft
C5_Witness ==
    /\ resp.op = "add_user" /\ resp.body = JStr("User already exists!")
    /\ users # {}
    /\ \A u \in users : GetDraftFor(u.id).status = 200

\* C6: the draft a session reads with get_draft or overwrites with
\* submit_draft was saved under the session's own user account, and every
\* draft is filed under the account that saved it.
C6_OwnDraftOnly ==
    /\ \A c \in Clients : \A r \in DraftsOf(current_user_id(c)) :
          current_user_id(c) # 0 => r.saved_by = session[c].acct
    /\ \A r \in pcr_records : \A u \in UsersById(r.user_id) : r.saved_by = AccountOf(u)

\* C4: a payload saved by submit_draft is what the following get_draft of
\* the same user returns.
C4_RoundTrip ==
    [][(resp'.op = "submit_draft" /\ resp'.status = 200) =>
          \A c \in Clients, p \in CodecPayloads :
              SubmitDraft(c, p) => GetDraftResponse(c)' = [status |-> 200, draft |-> p]]_vars

\* C7: a submission whose status is 'final' keeps that status.
C7_FinalStaysFinal ==
    [][\A s \in submissions : \A t \in submissions' :
          (s.status = "final" /\ t.id = s.id /\ t.user_id = s.user_id)
          => t.status = "final"]_vars

\* C8: when a submit_draft request commits, the user has exactly one draft
\* record and it holds that request's encrypted payload (the last writer
\* wins), whatever another request of the user did since the lookup.
C8_LastWriterWins ==
    [][\A w \in Workers :
          (inflight[w].pc = "write" /\ inflight[w].op = "submit_draft"
           /\ SubmitDraftCommit(w))
          => /\ Cardinality(DraftsOf(inflight[w].uid))' = 1
             /\ \A r \in DraftsOf(inflight[w].uid)' :
                   r.encrypted_data = inflight[w].encrypted_payload]_vars

\* C9: when remove_user succeeds, no user row of that name (so no wrapped
\* key), no draft record and no submission with the user's id is left.
C9_RemoveCascades ==
    [][(resp'.op = "remove_user" /\ resp'.status = 200) =>
          \A c \in Clients, name \in Usernames :
              RemoveUser(c, name)
              => \A u \in UsersByName(name) :
                    /\ UsersByName(name)' = {}
                    /\ UsersById(u.id)' = {}
                    /\ DraftsOf(u.id)' = {}
                    /\ SubmissionsOf(u.id)' = {}]_vars

\* remove_user has just succeeded and took the first draft and the first
\* submission with it: the second ones are all that is left
C9_Witness ==
    /\ resp.op = "remove_user" /\ resp.status = 200
    /\ {r.id : r \in pcr_records} = {2}
    /\ {r.id : r \in submissions} = {2}

\* C10: of the add_user requests for one username at most one answers 200,
\* and at most one user row (one wrapped key) has that username.
C10_ExclusiveProvisioning ==
    \A name \in Usernames :
        /\ Cardinality(UsersByName(name)) <= 1
        /\ Cardinality({w \in Workers : /\ inflight[w].op = "add_user"
                                        /\ inflight[w].pc = "done"
                                        /\ inflight[w].username = name
                                        /\ inflight[w].status = 200}) <= 1

\* two add_user requests for one username both passed the existence query;
\* one created the user, the commit of the other raised
C10_Witness ==
    /\ secret_key_file
    /\ inflight["w1"].op = "add_user" /\ inflight["w2"].op = "add_user"
    /\ inflight["w1"].username = inflight["w2"].username
    /\ {inflight["w1"].status, inflight["w2"].status} = {200, 500}
    /\ Cardinality(UsersByName(inflight["w1"].username)) = 1

\* C11: a missing master key stops the application at startup: a request
\* is answered only when secret.key is there, so no request fails because
\* the master key cannot be loaded.
C11_MasterKeyStartupFatal == resp.op # "" => secret_key_file

\* C12: a submit_draft that answers with an error leaves the draft records
\* as they were.
C12_ErrorLeavesDrafts ==
    [][\A c \in Clients, p \in Payloads :
          (SubmitDraft(c, p) /\ resp'.status # 200) => pcr_records' = pcr_records]_vars

\* submit_draft answered 500 (the session's user row is gone) while another
\* user's draft is stored
C12_Witness ==
    resp.op = "submit_draft" /\ resp.status = 500 /\ pcr_records # {}

\* C13: after submit_draft of the empty payload {}, get_draft of the same
\* user answers 200 with {} itself.
C13_EmptyPayloadRoundTrip ==
    [][\A c \in Clients :
          (SubmitDraft(c, EmptyDict) /\ resp'.status = 200)
          => GetDraftResponse(c)' = [status |-> 200, draft |-> EmptyDict]]_vars

C15_WrappedKeyImmutable ==
    [][\A v \in users' :
          IF \E u \in users : u.id = v.id
          THEN \A u \in users : u.id = v.id => u.encrypted_key = v.encrypted_key
          ELSE v.encrypted_key = FernetEncrypt(AppKey, next_key)]_vars

\* a second user was created and submit has been served
C15_Witness ==
    resp.op = "submit" /\ resp.status = 200 /\ Cardinality(users) = 2

\* C16: after an autosync or a submit of a logged-in user, get_submission
\* of that user answers with the data and the status that request wrote.
C16_LatestSubmissionRead ==
    [][\A c \in Clients, p \in Payloads :
          LET uid == current_user_id(c)
          IN  uid # 0 =>
                /\ Autosync(c, p) =>
                     /\ Len(GetSubmissionFor(uid)'.items) = 3
                     /\ GetSubmissionFor(uid)'.items[2].v = JStr("draft")
                     /\ GetSubmissionFor(uid)'.items[3].v = GetJsonOrEmpty(p)
                /\ SubmitFinal(c, p) =>
                     /\ Len(GetSubmissionFor(uid)'.items) = 3
                     /\ GetSubmissionFor(uid)'.items[2].v = JStr("final")
                     /\ GetSubmissionFor(uid)'.items[3].v = GetJsonOrEmpty(p)]_vars

\* get_submission answered with a final submission while two users have
\* submissions
C16_Witness ==
    /\ resp.op = "get_submission" /\ resp.status = 200
    /\ Len(resp.body.items) = 3
    /\ resp.body.items[2].v = JStr("final")
    /\ Cardinality(submissions) = 2

\* C17: every user row has a wrapped data key, so submit_draft never finds
\* an existing user without one.
C17_EveryUserHasKey ==
    \A u \in users : u.encrypted_key # NoWrappedKey /\ ~NoUserKeyFound(u.id)

\* two users exist and one of them has saved a draft
C17_Witness ==
    resp.op = "submit_draft" /\ resp.status = 200 /\ Cardinality(users) = 2

\* C18: every draft record and every submission has the user_id of an
\* existing user row.
C18_ReferentialIntegrity ==
    /\ \A r \in pcr_records : UsersById(r.user_id) # {}
    /\ \A s \in submissions : UsersById(s.user_id) # {}

\* C19: add_user and remove_user of a session whose role is not admin answer
\* 403 and change no table; the user rows change only in add_user or
\* remove_user of an admin session, or in a login of the admin or secondary
\* admin that adds the row of that name when absent.
C19_UsersChangeOnlyByAdmin ==
    [][/\ \A c \in Clients, in \in AddUserInputs :
            (session[c].role # "admin" /\ AddUser(c, in[1], in[2]))
            => resp'.status = 403 /\ UNCHANGED <<users, pcr_records, submissions>>
       /\ \A c \in Clients, name \in UsernameInputs :
            (session[c].role # "admin" /\ RemoveUser(c, name))
            => resp'.status = 403 /\ UNCHANGED <<users, pcr_records, submissions>>
       /\ users' # users =>
            \/ /\ resp'.op \in {"add_user", "remove_user"}
               /\ \E c \in Clients : session[c].role = "admin"
            \/ /\ resp'.op = "login"
               /\ \E name \in {ADMIN_USERNAME, SECONDARY_ADMIN_USERNAME} :
                    /\ UsersByName(name) = {}
                    /\ \E v \in users' : v.username = name /\ users' = users \cup {v}]_vars

\* a supervisor asked for the removal of a user and was refused
C19_Witness ==
    resp.op = "remove_user" /\ resp.status = 403 /\ users # {}

====
